---------------------------- MODULE Spec2Model ----------------------------
(***************************************************************************)
(* A state-machine model of lib/execute-actions.c: the datapath action     *)
(* interpreter execute_actions() with its helpers execute_set_action(),    *)
(* execute_sample() and eth_set_src_and_dst().                             *)
(*                                                                         *)
(* An attribute (struct nlattr) is a record [nla_type, payload].  A payload *)
(* is a record: a uint32_t, [be16], [be32], a fixed-size struct, [nested]  *)
(* (the sequence of the attributes nested in it) or [len |-> 0] (nothing   *)
(* that is read).  A call of execute_actions                               *)
(* or execute_sample is a frame Frame(fn, attrs, i, subactions) on `stack`:*)
(* attrs is the attribute sequence the frame's loop iterates, i its        *)
(* cursor.                                                                 *)
(***************************************************************************)
EXTENDS Integers, Sequences, FiniteSets, TLC

(***************************************************************************)
(* Bounds of the model.                                                    *)
(***************************************************************************)
\* The number of attributes (nested ones included) of a generated buffer.
MaxAttrs == 3

(***************************************************************************)
(* Discriminants, <linux/openvswitch.h>, as the switch statements use them. *)
(***************************************************************************)
OVS_ACTION_ATTR_UNSPEC == 0
OVS_ACTION_ATTR_OUTPUT == 1
OVS_ACTION_ATTR_USERSPACE == 2
OVS_ACTION_ATTR_SET == 3
OVS_ACTION_ATTR_PUSH_VLAN == 4
OVS_ACTION_ATTR_POP_VLAN == 5
OVS_ACTION_ATTR_SAMPLE == 6
OVS_ACTION_ATTR_PUSH_MPLS == 7
OVS_ACTION_ATTR_POP_MPLS == 8
OVS_ACTION_ATTR_MAX == 9

OVS_KEY_ATTR_UNSPEC == 0
OVS_KEY_ATTR_ENCAP == 1
OVS_KEY_ATTR_PRIORITY == 2
OVS_KEY_ATTR_IN_PORT == 3
OVS_KEY_ATTR_ETHERNET == 4
OVS_KEY_ATTR_VLAN == 5
OVS_KEY_ATTR_ETHERTYPE == 6
OVS_KEY_ATTR_IPV4 == 7
OVS_KEY_ATTR_IPV6 == 8
OVS_KEY_ATTR_TCP == 9
OVS_KEY_ATTR_UDP == 10
OVS_KEY_ATTR_ICMP == 11
OVS_KEY_ATTR_ICMPV6 == 12
OVS_KEY_ATTR_ARP == 13
OVS_KEY_ATTR_ND == 14
OVS_KEY_ATTR_SKB_MARK == 15
OVS_KEY_ATTR_TUNNEL == 16
OVS_KEY_ATTR_MPLS == 62
OVS_KEY_ATTR_MAX == 63

OVS_SAMPLE_ATTR_UNSPEC == 0
OVS_SAMPLE_ATTR_PROBABILITY == 1
OVS_SAMPLE_ATTR_ACTIONS == 2
OVS_SAMPLE_ATTR_MAX == 3

\* A uint32_t (an output port, a probability, random_uint32()) is the pair
\* of its 16-bit halves, the upper one first.
U32(hi, lo) == [hi |-> hi, lo |-> lo]

UINT32_MAX == U32(65535, 65535)

\* a >= b of two uint32_t.
u32_ge(a, b) == a.hi > b.hi \/ (a.hi = b.hi /\ a.lo >= b.lo)

\* sizeof eh->eth_src, sizeof eh->eth_dst.
ETH_ADDR_LEN == 6
\* Offsets of the members of struct eth_header.
ETH_DST_OFS == 0
ETH_SRC_OFS == 6
ETH_TYPE_OFS == 12
ETH_HEADER_LEN == 14
VLAN_HEADER_LEN == 4
MPLS_HLEN == 4
ETH_TYPE_IP == 2048
ETH_TYPE_VLAN == 33024
ETH_TYPE_MPLS == 34887
IP_HEADER_LEN == 20
IPPROTO_TCP == 6
IPPROTO_UDP == 17

(***************************************************************************)
(* Bytes.  Offsets are 0-based as in C; data[off + 1] is the byte at off.  *)
(***************************************************************************)
be16(v) == <<v \div 256, v % 256>>

get16(d, off) == d[off + 1] * 256 + d[off + 2]

\* memcpy(d + off, b, Len(b))
put(d, off, b) ==
    [k \in 1..Len(d) |-> IF k > off /\ k <= off + Len(b) THEN b[k - off] ELSE d[k]]

\* Grow d by the bytes b in front of offset off.
insert(d, off, b) == SubSeq(d, 1, off) \o b \o SubSeq(d, off + 1, Len(d))

\* Shrink d by the n bytes at offset off.
remove(d, off, n) == SubSeq(d, 1, off) \o SubSeq(d, off + n + 1, Len(d))

RECURSIVE sum16(_, _, _)
\* The sum of the n 16-bit words of d from offset off.
sum16(d, off, n) == IF n = 0 THEN 0 ELSE get16(d, off) + sum16(d, off + 2, n - 1)

RECURSIVE fold16(_)
\* End-around carry of a ones' complement sum.
fold16(s) == IF s > 65535 THEN fold16((s % 65536) + (s \div 65536)) ELSE s

\* The Internet checksum of the n words of d from offset off.
csum(d, off, n) == 65535 - fold16(sum16(d, off, n))

\* The checksum old_csum, updated for a word that changes from old to new.
recalc_csum16(old_csum, old, new) ==
    65535 - fold16((65535 - old_csum) + (65535 - old) + new)


(***************************************************************************)
(* The packet (struct ofpbuf): its bytes and the cached offsets of the     *)
(* link-layer, network-layer and transport-layer headers.                  *)
(***************************************************************************)
Packet(data, l2, l3, l4) == [data |-> data, l2 |-> l2, l3 |-> l3, l4 |-> l4]

\* The length of the link-layer header: Ethernet, and an 802.1Q tag if any.
l2_len(p) ==
    IF get16(p.data, p.l2 + ETH_TYPE_OFS) = ETH_TYPE_VLAN
    THEN ETH_HEADER_LEN + VLAN_HEADER_LEN
    ELSE ETH_HEADER_LEN

\* The offset of the ethertype that names what follows the link-layer header.
eth_type_ofs(p) == p.l2 + l2_len(p) - 2

\* The offset of the outermost MPLS label stack entry.
mpls_ofs(p) == p.l2 + l2_len(p)

\* The addresses go to each other's field.
eth_set_src_and_dst_Swapped(packet, eth_key) ==
    [packet EXCEPT !.data =
        put(put(@, packet.l2 + ETH_SRC_OFS, eth_key.eth_dst),
            packet.l2 + ETH_DST_OFS, eth_key.eth_src)]

\* eth_set_src_and_dst(): memcpy the two addresses of the key into *packet->l2.
eth_set_src_and_dst(packet, eth_key) ==
    [packet EXCEPT !.data =
        put(put(@, packet.l2 + ETH_SRC_OFS, eth_key.eth_src),
            packet.l2 + ETH_DST_OFS, eth_key.eth_dst)]

\* eth_push_vlan(): an 802.1Q tag (TPID, TCI) goes in front of the ethertype.
eth_push_vlan(packet, tci) ==
    [packet EXCEPT
        !.data = insert(@, packet.l2 + ETH_TYPE_OFS, be16(ETH_TYPE_VLAN) \o be16(tci)),
        !.l3 = @ + VLAN_HEADER_LEN,
        !.l4 = @ + VLAN_HEADER_LEN]

\* eth_pop_vlan(): the 802.1Q tag is removed.
eth_pop_vlan(packet) ==
    [packet EXCEPT
        !.data = remove(@, packet.l2 + ETH_TYPE_OFS, VLAN_HEADER_LEN),
        !.l3 = @ - VLAN_HEADER_LEN,
        !.l4 = @ - VLAN_HEADER_LEN]

\* push_mpls(): a label stack entry goes right after the link-layer header,
\* whose ethertype becomes the MPLS one.
push_mpls(packet, ethtype, lse) ==
    [packet EXCEPT
        !.data = insert(put(@, eth_type_ofs(packet), be16(ethtype)),
                        mpls_ofs(packet), lse),
        !.l3 = @ + MPLS_HLEN,
        !.l4 = @ + MPLS_HLEN]

\* pop_mpls(): the outermost label stack entry is removed and the ethertype
\* becomes the one given.
pop_mpls(packet, ethtype) ==
    [packet EXCEPT
        !.data = remove(put(@, eth_type_ofs(packet), be16(ethtype)),
                        mpls_ofs(packet), MPLS_HLEN),
        !.l3 = @ - MPLS_HLEN,
        !.l4 = @ - MPLS_HLEN]

\* set_mpls_lse(): the outermost label stack entry is overwritten in place.
set_mpls_lse(packet, lse) ==
    [packet EXCEPT !.data = put(@, mpls_ofs(packet), lse)]

\* The offset in the transport header of the checksum of protocol proto, or
\* -1 when the protocol has no checksum over the IP pseudo-header.
l4_csum_ofs(proto) ==
    IF proto = IPPROTO_TCP THEN 16 ELSE IF proto = IPPROTO_UDP THEN 6 ELSE -1

RECURSIVE recalc_csum_words(_, _, _, _)
\* The checksum c, updated for the n 16-bit words at the start of old that
\* change to those of new.
recalc_csum_words(c, old, new, n) ==
    IF n = 0 THEN c
    ELSE recalc_csum_words(recalc_csum16(c, get16(old, 2 * (n - 1)), get16(new, 2 * (n - 1))),
                           old, new, n - 1)

\* The data d whose transport checksum (of protocol proto, header at l4) is
\* fixed for n words that change from old to new.
fix_l4_csum(d, l4, proto, old, new, n) ==
    IF l4_csum_ofs(proto) < 0 THEN d
    ELSE put(d, l4 + l4_csum_ofs(proto),
             be16(recalc_csum_words(get16(d, l4 + l4_csum_ofs(proto)), old, new, n)))

\* packet_set_ipv4(): source, destination, TOS and TTL are overwritten, the
\* header checksum is recomputed and the checksum of a TCP or UDP header
\* that follows is fixed for the new pseudo-header.
packet_set_ipv4(packet, src, dst, tos, ttl) ==
    LET d0 == packet.data
        l3 == packet.l3
        proto == d0[l3 + 10]
        words == 2 * (d0[l3 + 1] % 16)
        old == SubSeq(d0, l3 + 13, l3 + 20)
        d1 == put(put(put(put(d0, l3 + 12, src \o dst),
                          l3 + 1, <<tos>>), l3 + 8, <<ttl>>), l3 + 10, <<0, 0>>)
        d2 == put(d1, l3 + 10, be16(csum(d1, l3, words)))
    IN  [packet EXCEPT !.data = fix_l4_csum(d2, packet.l4, proto, old, src \o dst, 4)]

\* packet_set_ipv6(): next header, addresses, traffic class, flow label and
\* hop limit are overwritten and the checksum of a TCP or UDP header that
\* follows is fixed for the new pseudo-header.
packet_set_ipv6(packet, proto, src, dst, tc, fl, hlimit) ==
    LET d0 == packet.data
        l3 == packet.l3
        old == SubSeq(d0, l3 + 9, l3 + 40)
        word0 == <<((d0[l3 + 1] \div 16) * 16) + (tc \div 16),
                   ((tc % 16) * 16) + ((fl \div 65536) % 16),
                   (fl \div 256) % 256, fl % 256>>
        d1 == put(put(put(d0, l3, word0), l3 + 6, <<proto, hlimit>>), l3 + 8, src \o dst)
    IN  [packet EXCEPT !.data = fix_l4_csum(d1, packet.l4, proto, old, src \o dst, 16)]

\* packet_set_tcp_port(), packet_set_udp_port(): the two ports are
\* overwritten and the transport checksum follows them.
packet_set_l4_port(packet, proto, src, dst) ==
    LET d0 == packet.data
        l4 == packet.l4
        d1 == put(d0, l4, be16(src) \o be16(dst))
    IN  [packet EXCEPT !.data =
            fix_l4_csum(d1, l4, proto, SubSeq(d0, l4 + 1, l4 + 4), be16(src) \o be16(dst), 2)]

packet_set_tcp_port(packet, src, dst) == packet_set_l4_port(packet, IPPROTO_TCP, src, dst)

packet_set_udp_port(packet, src, dst) == packet_set_l4_port(packet, IPPROTO_UDP, src, dst)

\* The flow key of a packet (struct flow), as the caller extracts it before
\* the call.
flow_extract(p) ==
    LET d == p.data
        v4 == get16(d, eth_type_ofs(p)) = ETH_TYPE_IP
    IN  [dl_dst |-> SubSeq(d, p.l2 + 1, p.l2 + ETH_ADDR_LEN),
         dl_src |-> SubSeq(d, p.l2 + ETH_ADDR_LEN + 1, p.l2 + 2 * ETH_ADDR_LEN),
         dl_type |-> get16(d, eth_type_ofs(p)),
         nw_src |-> IF v4 THEN SubSeq(d, p.l3 + 13, p.l3 + 16) ELSE SubSeq(d, p.l3 + 9, p.l3 + 24),
         nw_dst |-> IF v4 THEN SubSeq(d, p.l3 + 17, p.l3 + 20) ELSE SubSeq(d, p.l3 + 25, p.l3 + 40),
         nw_ttl |-> IF v4 THEN d[p.l3 + 9] ELSE d[p.l3 + 8],
         tp_src |-> get16(d, p.l4),
         tp_dst |-> get16(d, p.l4 + 2)]

(***************************************************************************)
(* Attributes (struct nlattr).                                             *)
(***************************************************************************)
Attr(type, payload) == [nla_type |-> type, payload |-> payload]

nl_attr_type(a) == a.nla_type

nl_attr_get(a) == a.payload

nl_attr_get_u32(a) == a.payload

nl_attr_get_be16(a) == a.payload.be16

nl_attr_get_be32(a) == a.payload.be32

\* The attributes nested in a, which NL_NESTED_FOR_EACH iterates and of which
\* nl_attr_get(a) is the first.
nl_attr_nested(a) == a.payload.nested

(***************************************************************************)
(* The state.                                                              *)
(*   actions, packet, flow, dp, key, output, userspace                     *)
(*            the arguments of the outermost execute_actions(): the buffer, *)
(*            *packet, *key, and the pointers dp, key, output and          *)
(*            userspace, each 0 (NULL) or 1;                               *)
(*   caller   what the caller passed: the packet and flow before the call; *)
(*   stack    the calls of execute_actions / execute_sample in progress;   *)
(*   status   "running", "returned" (the outermost call returned) or       *)
(*            "aborted" (NOT_REACHED() or a failed ovs_assert());          *)
(*   calls    the invocations of the two sinks so far, oldest first, each  *)
(*            with the arguments the sink saw;                             *)
(*   draws    the values random_uint32() returned to this call so far,     *)
(*            oldest first.                                                *)
(* These are the state of the call whose thread is running.  When two      *)
(* threads call execute_actions(), each with its own packet and key,       *)
(*   tid      is the thread that is running, 1 or 2;                       *)
(*   other    is the state of the call of the thread that is not running   *)
(*            (its arguments, stack, status, calls and draws), or a record *)
(*            of status "none" when there is one thread only;              *)
(*   rng      is what random_uint32() returned so far to any thread,       *)
(*            oldest first, each value with the thread it was returned to. *)
(***************************************************************************)
VARIABLES actions, packet, flow, dp, key, output, userspace, caller,
          stack, status, calls, draws, tid, other, rng

vars == <<actions, packet, flow, dp, key, output, userspace, caller,
          stack, status, calls, draws, tid, other, rng>>

args == <<actions, flow, dp, key, output, userspace, caller, tid, other>>

Frame(fn, attrs, i, subactions) ==
    [fn |-> fn, attrs |-> attrs, i |-> i, subactions |-> subactions]

\* The innermost call in progress.
top == stack[Len(stack)]

\* The attribute `a` of the innermost loop.
cur == top.attrs[top.i]

\* The innermost loop is at an attribute of execute_actions' list.
AtAction ==
    /\ status = "running"
    /\ top.fn = "execute_actions"
    /\ top.i <= Len(top.attrs)

\* The innermost loop is at an attribute nested in a sample action.
AtSampleAttr ==
    /\ status = "running"
    /\ top.fn = "execute_sample"
    /\ top.i <= Len(top.attrs)

\* The loop goes on to the attribute after `a` (nl_attr_next).
Advance == [stack EXCEPT ![Len(stack)].i = @ + 1]

\* What the call did so far is undone before the process ends.
Abort_Rollback ==
    /\ status' = "aborted"
    /\ packet' = caller.packet
    /\ calls' = <<>>
    /\ UNCHANGED <<args, stack, draws, rng>>

\* ovs_abort(): NOT_REACHED() and a failed ovs_assert() end the process.
Abort ==
    /\ status' = "aborted"
    /\ UNCHANGED <<args, packet, stack, calls, draws, rng>>

\* ovs_assert(dp && output)
OutputAsserted == dp # 0 /\ output # 0

\* The assertion without the key.
UserspaceAsserted_NoKey == dp # 0 /\ userspace # 0

\* ovs_assert(dp && userspace && key)
UserspaceAsserted == dp # 0 /\ userspace # 0 /\ key # 0

\* The sink gets the packet as the caller passed it, not as it is now.
OutputCall_StalePacket(a) ==
    [sink |-> "output", dp |-> dp, packet |-> caller.packet, out_port |-> nl_attr_get_u32(a)]

\* output(dp, packet, nl_attr_get_u32(a)): what the output sink is invoked with.
OutputCall(a) ==
    [sink |-> "output", dp |-> dp, packet |-> packet, out_port |-> nl_attr_get_u32(a)]

\* The sink gets the payload of `a` instead of `a`.
UserspaceCall_Payload(a) ==
    [sink |-> "userspace", dp |-> dp, packet |-> packet, key |-> key,
     flow |-> flow, a |-> nl_attr_get(a)]

\* userspace(dp, packet, key, a): what the exception sink is invoked with;
\* flow is *key as the sink finds it.
UserspaceCall(a) ==
    [sink |-> "userspace", dp |-> dp, packet |-> packet, key |-> key,
     flow |-> flow, a |-> a]

(***************************************************************************)
(* execute_set_action()                                                    *)
(***************************************************************************)
\* The keys whose set is not implemented are taken for keys that cannot be
\* set.
SetNotReached_Unimplemented(type) ==
    type \notin {OVS_KEY_ATTR_ETHERNET, OVS_KEY_ATTR_IPV4, OVS_KEY_ATTR_IPV6,
                 OVS_KEY_ATTR_TCP, OVS_KEY_ATTR_UDP, OVS_KEY_ATTR_MPLS}

\* The cases of the switch that end in NOT_REACHED(): the match-only keys,
\* the sentinel, and (default:) every value that is no other case.
SetNotReached(type) ==
    type \notin {OVS_KEY_ATTR_PRIORITY, OVS_KEY_ATTR_TUNNEL, OVS_KEY_ATTR_SKB_MARK,
                 OVS_KEY_ATTR_ETHERNET, OVS_KEY_ATTR_IPV4, OVS_KEY_ATTR_IPV6,
                 OVS_KEY_ATTR_TCP, OVS_KEY_ATTR_UDP, OVS_KEY_ATTR_MPLS}

\* The packet after execute_set_action(packet, a), for a case that returns.
execute_set_action(pkt, a) ==
    LET type == nl_attr_type(a)
        k == nl_attr_get(a)
    IN  CASE type \in {OVS_KEY_ATTR_PRIORITY, OVS_KEY_ATTR_TUNNEL, OVS_KEY_ATTR_SKB_MARK} ->
                pkt
          [] type = OVS_KEY_ATTR_ETHERNET ->
                eth_set_src_and_dst(pkt, k)
          [] type = OVS_KEY_ATTR_IPV4 ->
                packet_set_ipv4(pkt, k.ipv4_src, k.ipv4_dst, k.ipv4_tos, k.ipv4_ttl)
          [] type = OVS_KEY_ATTR_IPV6 ->
                packet_set_ipv6(pkt, k.ipv6_proto, k.ipv6_src, k.ipv6_dst,
                                k.ipv6_tclass, k.ipv6_label, k.ipv6_hlimit)
          [] type = OVS_KEY_ATTR_TCP ->
                packet_set_tcp_port(pkt, k.tcp_src, k.tcp_dst)
          [] type = OVS_KEY_ATTR_UDP ->
                packet_set_udp_port(pkt, k.udp_src, k.udp_dst)
          [] type = OVS_KEY_ATTR_MPLS ->
                set_mpls_lse(pkt, nl_attr_get_be32(a))

(***************************************************************************)
(* execute_actions(): one action per case of the switch.                   *)
(***************************************************************************)
\* The output sink is invoked and the loop ends, as if output were the last
\* action.
ExecOutput_Stops ==
    /\ AtAction
    /\ nl_attr_type(cur) = OVS_ACTION_ATTR_OUTPUT
    /\ OutputAsserted
    /\ calls' = Append(calls, [sink |-> "output", dp |-> dp, packet |-> packet,
                               out_port |-> nl_attr_get_u32(cur)])
    /\ stack' = [stack EXCEPT ![Len(stack)].i = Len(top.attrs) + 1]
    /\ UNCHANGED <<args, packet, status, draws, rng>>

\* The port is read from the head of the list instead of from `a`.
ExecOutput_FirstPort ==
    /\ AtAction
    /\ nl_attr_type(cur) = OVS_ACTION_ATTR_OUTPUT
    /\ OutputAsserted
    /\ calls' = Append(calls, [sink |-> "output", dp |-> dp, packet |-> packet,
                               out_port |-> nl_attr_get_u32(top.attrs[1])])
    /\ stack' = Advance
    /\ UNCHANGED <<args, packet, status, draws, rng>>

\* case OVS_ACTION_ATTR_OUTPUT, ovs_assert(dp && output) holds.
ExecOutput ==
    /\ AtAction
    /\ nl_attr_type(cur) = OVS_ACTION_ATTR_OUTPUT
    /\ OutputAsserted
    /\ calls' = Append(calls, OutputCall(cur))
    /\ stack' = Advance
    /\ UNCHANGED <<args, packet, status, draws, rng>>

\* case OVS_ACTION_ATTR_OUTPUT, ovs_assert(dp && output) fails.
ExecOutputAssert ==
    /\ AtAction
    /\ nl_attr_type(cur) = OVS_ACTION_ATTR_OUTPUT
    /\ ~OutputAsserted
    /\ Abort

\* case OVS_ACTION_ATTR_USERSPACE, ovs_assert(dp && userspace && key) holds.
ExecUserspace ==
    /\ AtAction
    /\ nl_attr_type(cur) = OVS_ACTION_ATTR_USERSPACE
    /\ UserspaceAsserted
    /\ calls' = Append(calls, UserspaceCall(cur))
    /\ stack' = Advance
    /\ UNCHANGED <<args, packet, status, draws, rng>>

\* case OVS_ACTION_ATTR_USERSPACE, ovs_assert(dp && userspace && key) fails.
ExecUserspaceAssert ==
    /\ AtAction
    /\ nl_attr_type(cur) = OVS_ACTION_ATTR_USERSPACE
    /\ ~UserspaceAsserted
    /\ Abort

\* case OVS_ACTION_ATTR_PUSH_VLAN
ExecPushVlan ==
    /\ AtAction
    /\ nl_attr_type(cur) = OVS_ACTION_ATTR_PUSH_VLAN
    /\ packet' = eth_push_vlan(packet, nl_attr_get(cur).vlan_tci)
    /\ stack' = Advance
    /\ UNCHANGED <<args, status, calls, draws, rng>>

\* The case breaks without the call of eth_pop_vlan().
ExecPopVlan_NoPop ==
    /\ AtAction
    /\ nl_attr_type(cur) = OVS_ACTION_ATTR_POP_VLAN
    /\ stack' = Advance
    /\ UNCHANGED <<args, packet, status, calls, draws, rng>>

\* case OVS_ACTION_ATTR_POP_VLAN
ExecPopVlan ==
    /\ AtAction
    /\ nl_attr_type(cur) = OVS_ACTION_ATTR_POP_VLAN
    /\ packet' = eth_pop_vlan(packet)
    /\ stack' = Advance
    /\ UNCHANGED <<args, status, calls, draws, rng>>

\* case OVS_ACTION_ATTR_PUSH_MPLS
ExecPushMpls ==
    /\ AtAction
    /\ nl_attr_type(cur) = OVS_ACTION_ATTR_PUSH_MPLS
    /\ packet' = push_mpls(packet, nl_attr_get(cur).mpls_ethertype, nl_attr_get(cur).mpls_lse)
    /\ stack' = Advance
    /\ UNCHANGED <<args, status, calls, draws, rng>>

\* The ethertype after the pop is always that of IPv4.
ExecPopMpls_AlwaysIp ==
    /\ AtAction
    /\ nl_attr_type(cur) = OVS_ACTION_ATTR_POP_MPLS
    /\ packet' = pop_mpls(packet, ETH_TYPE_IP)
    /\ stack' = Advance
    /\ UNCHANGED <<args, status, calls, draws, rng>>

\* case OVS_ACTION_ATTR_POP_MPLS
ExecPopMpls ==
    /\ AtAction
    /\ nl_attr_type(cur) = OVS_ACTION_ATTR_POP_MPLS
    /\ packet' = pop_mpls(packet, nl_attr_get_be16(cur))
    /\ stack' = Advance
    /\ UNCHANGED <<args, status, calls, draws, rng>>

\* The flow key is extracted anew from the packet that was set.
ExecSet_Resync ==
    /\ AtAction
    /\ nl_attr_type(cur) = OVS_ACTION_ATTR_SET
    /\ ~SetNotReached(nl_attr_type(Head(nl_attr_nested(cur))))
    /\ packet' = execute_set_action(packet, Head(nl_attr_nested(cur)))
    /\ flow' = flow_extract(packet')
    /\ stack' = Advance
    /\ UNCHANGED <<actions, dp, key, output, userspace, caller, tid, other, status, calls,
                 draws, rng>>

\* case OVS_ACTION_ATTR_SET, execute_set_action() returns.
ExecSet ==
    /\ AtAction
    /\ nl_attr_type(cur) = OVS_ACTION_ATTR_SET
    /\ ~SetNotReached(nl_attr_type(Head(nl_attr_nested(cur))))
    /\ packet' = execute_set_action(packet, Head(nl_attr_nested(cur)))
    /\ stack' = Advance
    /\ UNCHANGED <<args, status, calls, draws, rng>>

\* The key that cannot be set is skipped: the loop goes on.
ExecSetNotReached_Skip ==
    /\ AtAction
    /\ nl_attr_type(cur) = OVS_ACTION_ATTR_SET
    /\ SetNotReached(nl_attr_type(Head(nl_attr_nested(cur))))
    /\ stack' = Advance
    /\ UNCHANGED <<args, packet, status, calls, draws, rng>>

\* case OVS_ACTION_ATTR_SET, execute_set_action() reaches NOT_REACHED().
ExecSetNotReached ==
    /\ AtAction
    /\ nl_attr_type(cur) = OVS_ACTION_ATTR_SET
    /\ SetNotReached(nl_attr_type(Head(nl_attr_nested(cur))))
    /\ Abort

\* case OVS_ACTION_ATTR_SAMPLE: execute_sample() is entered; when it
\* returns, the loop of this call goes on after the sample action.
ExecSample ==
    /\ AtAction
    /\ nl_attr_type(cur) = OVS_ACTION_ATTR_SAMPLE
    /\ stack' = Append(Advance, Frame("execute_sample", nl_attr_nested(cur), 1, <<>>))
    /\ UNCHANGED <<args, packet, status, calls, draws, rng>>

\* case OVS_ACTION_ATTR_UNSPEC, case __OVS_ACTION_ATTR_MAX: NOT_REACHED().
ExecNotReached ==
    /\ AtAction
    /\ nl_attr_type(cur) \in {OVS_ACTION_ATTR_UNSPEC, OVS_ACTION_ATTR_MAX}
    /\ Abort

\* The types the switch has a case for.
ActionCases ==
    {OVS_ACTION_ATTR_OUTPUT, OVS_ACTION_ATTR_USERSPACE, OVS_ACTION_ATTR_PUSH_VLAN,
     OVS_ACTION_ATTR_POP_VLAN, OVS_ACTION_ATTR_PUSH_MPLS, OVS_ACTION_ATTR_POP_MPLS,
     OVS_ACTION_ATTR_SET, OVS_ACTION_ATTR_SAMPLE,
     OVS_ACTION_ATTR_UNSPEC, OVS_ACTION_ATTR_MAX}

\* A type that is no case of the switch, which has no default: the switch
\* does nothing and the loop goes on.
ExecNoCase ==
    /\ AtAction
    /\ nl_attr_type(cur) \notin ActionCases
    /\ stack' = Advance
    /\ UNCHANGED <<args, packet, status, calls, draws, rng>>

\* The nested list ran on a copy of the packet: when the nested call
\* returns, the packet is again the one the caller passed.
Return_DropsNested ==
    /\ status = "running"
    /\ top.fn = "execute_actions"
    /\ top.i > Len(top.attrs)
    /\ stack' = SubSeq(stack, 1, Len(stack) - 1)
    /\ status' = IF Len(stack) = 1 THEN "returned" ELSE "running"
    /\ packet' = IF Len(stack) = 1 THEN packet ELSE caller.packet
    /\ UNCHANGED <<args, calls, draws, rng>>

\* The loop of execute_actions() ends and the call returns.
Return ==
    /\ status = "running"
    /\ top.fn = "execute_actions"
    /\ top.i > Len(top.attrs)
    /\ stack' = SubSeq(stack, 1, Len(stack) - 1)
    /\ status' = IF Len(stack) = 1 THEN "returned" ELSE "running"
    /\ UNCHANGED <<args, packet, calls, draws, rng>>

(***************************************************************************)
(* execute_sample(): one action per case of the switch, and the call after *)
(* the loop.                                                               *)
(***************************************************************************)
\* The values random_uint32() is taken to return: the ends of its range and
\* the value next to the upper end.
Draws == {U32(0, 0), U32(65535, 65534), UINT32_MAX}

\* The test with > for >=.
SamplePasses_Gt(d, a) == ~(u32_ge(d, nl_attr_get_u32(a)) /\ d # nl_attr_get_u32(a))

\* Whether a draw passes the test of line 118.
SamplePasses(d, a) == ~u32_ge(d, nl_attr_get_u32(a))

\* The return of line 119 is missing: the loop goes on whatever is drawn.
SampleProbability_NoReturn ==
    /\ AtSampleAttr
    /\ nl_attr_type(cur) = OVS_SAMPLE_ATTR_PROBABILITY
    /\ \E d \in Draws :
        /\ draws' = Append(draws, d)
        /\ rng' = Append(rng, [tid |-> tid, value |-> d])
        /\ stack' = Advance
    /\ UNCHANGED <<args, packet, status, calls>>

\* case OVS_SAMPLE_ATTR_PROBABILITY: random_uint32() is drawn; execute_sample
\* returns when the draw is not below the threshold.
SampleProbability ==
    /\ AtSampleAttr
    /\ nl_attr_type(cur) = OVS_SAMPLE_ATTR_PROBABILITY
    /\ \E d \in Draws :
        /\ draws' = Append(draws, d)
        /\ rng' = Append(rng, [tid |-> tid, value |-> d])
        /\ stack' = IF SamplePasses(d, cur)
                    THEN Advance
                    ELSE SubSeq(stack, 1, Len(stack) - 1)
    /\ UNCHANGED <<args, packet, status, calls>>

\* case OVS_SAMPLE_ATTR_ACTIONS: subactions = a.
SampleActions ==
    /\ AtSampleAttr
    /\ nl_attr_type(cur) = OVS_SAMPLE_ATTR_ACTIONS
    /\ stack' = [Advance EXCEPT ![Len(stack)].subactions = <<cur>>]
    /\ UNCHANGED <<args, packet, status, calls, draws, rng>>

\* case OVS_SAMPLE_ATTR_UNSPEC, case __OVS_SAMPLE_ATTR_MAX, default: NOT_REACHED().
SampleNotReached ==
    /\ AtSampleAttr
    /\ nl_attr_type(cur) \notin {OVS_SAMPLE_ATTR_PROBABILITY, OVS_SAMPLE_ATTR_ACTIONS}
    /\ Abort

\* A sample action without probability is taken for one that never samples.
SampleCall_NeedsProbability ==
    /\ status = "running"
    /\ top.fn = "execute_sample"
    /\ top.i > Len(top.attrs)
    /\ top.subactions # <<>>
    /\ stack' = IF \E j \in 1..Len(top.attrs) :
                        top.attrs[j].nla_type = OVS_SAMPLE_ATTR_PROBABILITY
                THEN [stack EXCEPT ![Len(stack)] =
                        Frame("execute_actions", nl_attr_nested(Head(top.subactions)), 1, <<>>)]
                ELSE SubSeq(stack, 1, Len(stack) - 1)
    /\ UNCHANGED <<args, packet, status, calls, draws, rng>>

\* subactions is a static variable, one for all threads: when the other
\* thread is in execute_sample() and has set it, this call runs the list the
\* other thread found.
SampleCall_Static ==
    /\ status = "running"
    /\ top.fn = "execute_sample"
    /\ top.i > Len(top.attrs)
    /\ top.subactions # <<>>
    /\ LET o == IF other.status = "running" THEN other.stack[Len(other.stack)] ELSE top
           subactions == IF o.fn = "execute_sample" /\ o.subactions # <<>>
                         THEN o.subactions
                         ELSE top.subactions
       IN  stack' = [stack EXCEPT ![Len(stack)] =
                        Frame("execute_actions", nl_attr_nested(Head(subactions)), 1, <<>>)]
    /\ UNCHANGED <<args, packet, status, calls, draws, rng>>

\* execute_actions() is called on the list the sample action is in, not on
\* the list nested in it.
SampleCall_OuterList ==
    /\ status = "running"
    /\ top.fn = "execute_sample"
    /\ top.i > Len(top.attrs)
    /\ top.subactions # <<>>
    /\ stack' = [stack EXCEPT ![Len(stack)] =
                    Frame("execute_actions", stack[Len(stack) - 1].attrs, 1, <<>>)]
    /\ UNCHANGED <<args, packet, status, calls, draws, rng>>

\* After the loop: execute_actions(dp, packet, key, nl_attr_get(subactions),
\* ...).  It is the last statement of execute_sample(), whose frame the
\* nested call replaces.
SampleCall ==
    /\ status = "running"
    /\ top.fn = "execute_sample"
    /\ top.i > Len(top.attrs)
    /\ top.subactions # <<>>
    /\ stack' = [stack EXCEPT ![Len(stack)] =
                    Frame("execute_actions", nl_attr_nested(Head(top.subactions)), 1, <<>>)]
    /\ UNCHANGED <<args, packet, status, calls, draws, rng>>

(***************************************************************************)
(* The calls the model starts from: packets, keys, buffers and sinks.      *)
(***************************************************************************)
\* d with the checksum of the IPv4 header at l3 filled in.
with_ip_csum(d, l3) ==
    LET z == put(d, l3 + 10, <<0, 0>>)
    IN  put(z, l3 + 10, be16(csum(z, l3, IP_HEADER_LEN \div 2)))

\* d with the checksum of the transport header at l4 (protocol proto, to the
\* end of d) filled in, over the pseudo-header of the addrs address bytes
\* at offset addr_ofs.
with_l4_csum(d, addr_ofs, addrs, l4, proto) ==
    LET z == put(d, l4 + l4_csum_ofs(proto), <<0, 0>>)
        s == sum16(z, addr_ofs, addrs \div 2) + proto + (Len(z) - l4)
             + sum16(z, l4, (Len(z) - l4) \div 2)
    IN  put(z, l4 + l4_csum_ofs(proto), be16(65535 - fold16(s)))

\* An untagged Ethernet frame: TCP over IPv4, 192.168.0.1:1234 > 192.168.0.2:80.
TcpPacket ==
    LET eth == <<2, 0, 0, 0, 0, 2>> \o <<2, 0, 0, 0, 0, 1>> \o be16(ETH_TYPE_IP)
        ip  == <<69, 0, 0, 40, 0, 1, 64, 0, 32, IPPROTO_TCP, 0, 0>>
               \o <<192, 168, 0, 1>> \o <<192, 168, 0, 2>>
        tcp == be16(1234) \o be16(80) \o <<0, 0, 0, 1, 0, 0, 0, 0, 80, 2, 16, 0, 0, 0, 0, 0>>
        l3  == ETH_HEADER_LEN
        l4  == ETH_HEADER_LEN + IP_HEADER_LEN
    IN  Packet(with_l4_csum(with_ip_csum(eth \o ip \o tcp, l3), l3 + 12, 8, l4, IPPROTO_TCP),
               0, l3, l4)

\* An untagged Ethernet frame: UDP over IPv6, [fe80::1]:53 > [fe80::2]:5353.
Udp6Packet ==
    LET eth == <<2, 0, 0, 0, 0, 2>> \o <<2, 0, 0, 0, 0, 1>> \o be16(34525)
        a(n) == <<254, 128, 0, 0, 0, 0, 0, 0, 0, 0, 0, 0, 0, 0, 0, n>>
        ip6 == <<96, 0, 0, 0, 0, 8, IPPROTO_UDP, 64>> \o a(1) \o a(2)
        udp == be16(53) \o be16(5353) \o <<0, 8, 0, 0>>
        l3  == ETH_HEADER_LEN
        l4  == ETH_HEADER_LEN + 40
    IN  Packet(with_l4_csum(eth \o ip6 \o udp, l3 + 8, 32, l4, IPPROTO_UDP), 0, l3, l4)

Output(port) == Attr(OVS_ACTION_ATTR_OUTPUT, port)

\* An exception delivery; its payload (the pid and the user data) is opaque
\* to execute_actions.
Userspace(cookie) == Attr(OVS_ACTION_ATTR_USERSPACE, [pid |-> 1, userdata |-> cookie])

PushVlan(tci) == Attr(OVS_ACTION_ATTR_PUSH_VLAN, [vlan_tpid |-> ETH_TYPE_VLAN, vlan_tci |-> tci])

PopVlan == Attr(OVS_ACTION_ATTR_POP_VLAN, [len |-> 0])

PushMpls(ethertype, lse) ==
    Attr(OVS_ACTION_ATTR_PUSH_MPLS, [mpls_lse |-> lse, mpls_ethertype |-> ethertype])

PopMpls(ethertype) == Attr(OVS_ACTION_ATTR_POP_MPLS, [be16 |-> ethertype])

\* A set action wraps one key attribute.
Set(k) == Attr(OVS_ACTION_ATTR_SET, [nested |-> <<k>>])

\* A sample action wraps the attributes attrs.
Sample(attrs) == Attr(OVS_ACTION_ATTR_SAMPLE, [nested |-> attrs])

Probability(t) == Attr(OVS_SAMPLE_ATTR_PROBABILITY, t)

Actions(l) == Attr(OVS_SAMPLE_ATTR_ACTIONS, [nested |-> l])

\* IPv4{src=10.0.0.1, dst=10.0.0.2, ttl=64}
KeyIpv4 ==
    Attr(OVS_KEY_ATTR_IPV4, [ipv4_src |-> <<10, 0, 0, 1>>, ipv4_dst |-> <<10, 0, 0, 2>>,
                             ipv4_proto |-> IPPROTO_TCP, ipv4_tos |-> 0,
                             ipv4_ttl |-> 64, ipv4_frag |-> 0])

KeyEthernet ==
    Attr(OVS_KEY_ATTR_ETHERNET, [eth_src |-> <<170, 170, 170, 170, 170, 170>>,
                                 eth_dst |-> <<187, 187, 187, 187, 187, 187>>])

KeyIpv6 ==
    Attr(OVS_KEY_ATTR_IPV6,
         [ipv6_src |-> <<32, 1, 13, 184, 0, 0, 0, 0, 0, 0, 0, 0, 0, 0, 0, 1>>,
          ipv6_dst |-> <<32, 1, 13, 184, 0, 0, 0, 0, 0, 0, 0, 0, 0, 0, 0, 2>>,
          ipv6_label |-> 74565, ipv6_proto |-> IPPROTO_UDP, ipv6_tclass |-> 184,
          ipv6_hlimit |-> 32, ipv6_frag |-> 0])

KeyTcp == Attr(OVS_KEY_ATTR_TCP, [tcp_src |-> 4321, tcp_dst |-> 8080])

KeyUdp == Attr(OVS_KEY_ATTR_UDP, [udp_src |-> 4321, udp_dst |-> 8080])

\* The keys whose payload execute_set_action never reads.
KeyOpaque(type) == Attr(type, [len |-> 0])

\* The leaves of the generated buffers.
Leaves == {Output(U32(0, 1)), Output(U32(0, 3)), Userspace(7), Set(KeyIpv4)}

\* The sample actions of the generated buffers, around the action list l:
\* without a probability, and with the least and the greatest threshold.
SamplesOf(l) ==
    {Sample(<<Actions(l)>>)}
    \cup {Sample(<<Probability(t), Actions(l)>>) : t \in {U32(0, 0), UINT32_MAX}}

RECURSIVE ListsOfSize(_)
\* The action lists of exactly n attributes, nested actions included: a leaf
\* and n - 1 more, or a sample action of k attributes and n - k more.
ListsOfSize(n) ==
    IF n = 0 THEN {<<>>}
    ELSE {<<a>> \o rest : a \in Leaves, rest \in ListsOfSize(n - 1)}
         \cup UNION {
                UNION {{<<a>> \o rest : a \in SamplesOf(l), rest \in ListsOfSize(n - k)}
                       : l \in ListsOfSize(k - 1)}
                : k \in 1..n}

\* The generated buffers of at most n attributes.
Buffers(n) == UNION {ListsOfSize(k) : k \in 0..n}

KeyMpls == Attr(OVS_KEY_ATTR_MPLS, [be32 |-> <<0, 17, 17, 17>>])

\* Types that are no OVS_ACTION_ATTR_*: the two outside the actions, and two
\* above the sentinel.
BadActionTypes == {OVS_ACTION_ATTR_UNSPEC, OVS_ACTION_ATTR_MAX, OVS_ACTION_ATTR_MAX + 1, 200}

\* The keys that are not read: the three that are not implemented, the
\* match-only ones, the sentinel, and two that are no OVS_KEY_ATTR_*.
OpaqueKeyTypes ==
    {OVS_KEY_ATTR_PRIORITY, OVS_KEY_ATTR_TUNNEL, OVS_KEY_ATTR_SKB_MARK,
     OVS_KEY_ATTR_UNSPEC, OVS_KEY_ATTR_ENCAP, OVS_KEY_ATTR_ETHERTYPE,
     OVS_KEY_ATTR_IN_PORT, OVS_KEY_ATTR_VLAN, OVS_KEY_ATTR_ICMP,
     OVS_KEY_ATTR_ICMPV6, OVS_KEY_ATTR_ARP, OVS_KEY_ATTR_ND,
     OVS_KEY_ATTR_MAX, OVS_KEY_ATTR_TUNNEL + 1, OVS_KEY_ATTR_MAX + 1}

\* Action lists for the cases the generated buffers leave out, each for the
\* TCP packet.
TcpLists ==
    {<<Attr(t, [len |-> 0]), Output(U32(0, 3))>> : t \in BadActionTypes}
    \cup {<<Output(U32(0, 1)), Attr(t, [len |-> 0]), Userspace(7)>> : t \in BadActionTypes}
    \cup {<<Set(KeyOpaque(t)), Output(U32(0, 3))>> : t \in OpaqueKeyTypes}
    \cup {<<Set(k), Output(U32(0, 3))>> : k \in {KeyEthernet, KeyTcp}}
    \cup {<<PushVlan(4106), Output(U32(0, 3))>>,
          <<PushVlan(4106), PopVlan, Output(U32(0, 3))>>,
          <<PushMpls(ETH_TYPE_MPLS, <<0, 1, 1, 63>>), Output(U32(0, 3))>>,
          <<PushMpls(ETH_TYPE_MPLS, <<0, 1, 1, 63>>), PopMpls(ETH_TYPE_IP), Output(U32(0, 3))>>,
          <<PushMpls(ETH_TYPE_MPLS, <<0, 1, 1, 63>>), Set(KeyMpls), Output(U32(0, 3))>>}
    \cup {<<Sample(<<Actions(<<Output(U32(0, 1))>>), Probability(t)>>), Output(U32(0, 3))>>
          : t \in Draws}
    \cup {<<Sample(<<Probability(U32(65535, 65534)), Actions(<<Set(KeyEthernet), Userspace(7)>>)>>),
            Output(U32(0, 3))>>}
    \cup {<<Sample(<<Attr(t, [len |-> 0]), Actions(<<Output(U32(0, 1))>>)>>), Output(U32(0, 3))>>
          : t \in {OVS_SAMPLE_ATTR_UNSPEC, OVS_SAMPLE_ATTR_MAX, OVS_SAMPLE_ATTR_MAX + 1}}
    \cup {<<Sample(<<Actions(<<Output(U32(0, 1))>>), Attr(OVS_SAMPLE_ATTR_MAX, [len |-> 0])>>), Output(U32(0, 3))>>}
    \cup {<<Userspace(7),
            Sample(<<Probability(U32(65535, 65534)), Actions(<<Set(KeyEthernet)>>)>>),
            Output(U32(0, 3)), Set(KeyTcp)>>}
    \cup {<<PushVlan(tci), PopVlan, Output(U32(0, 3))>> : tci \in {0, 65535}}
    \cup {<<Set(KeyEthernet), Output(U32(0, 1)), Set(KeyOpaque(OVS_KEY_ATTR_ARP)), Output(U32(0, 3))>>}
    \cup {<<PushMpls(ETH_TYPE_MPLS + 1, <<255, 255, 255, 255>>), PopMpls(ETH_TYPE_IP), Output(U32(0, 3))>>,
          <<PushVlan(4106), PushMpls(ETH_TYPE_MPLS, <<0, 1, 1, 63>>), PopMpls(ETH_TYPE_IP)>>}

\* ... and for the UDP packet.
UdpLists ==
    {<<Set(KeyIpv6), Output(U32(0, 3))>>,
     <<Set(KeyUdp), Userspace(7)>>,
     <<PushVlan(4106), PopVlan, Userspace(7)>>,
     <<PushMpls(ETH_TYPE_MPLS, <<0, 1, 1, 63>>), PopMpls(34525), Userspace(7)>>}

\* The packet and the buffer of a call: a generated buffer of at most n
\* attributes, or one of the lists above.
Inputs(n) ==
    {[packet |-> TcpPacket, actions |-> l] : l \in Buffers(n) \cup TcpLists}
    \cup {[packet |-> Udp6Packet, actions |-> l] : l \in UdpLists}

\* The pointers dp, output, userspace and key of a call: all four non-null,
\* or all but one.
Sinks ==
    {c \in [dp : {0, 1}, output : {0, 1}, userspace : {0, 1}, key : {0, 1}] :
        c.dp + c.output + c.userspace + c.key >= 3}

AllSinks == [dp |-> 1, output |-> 1, userspace |-> 1, key |-> 1]

\* The calls: every input with all four pointers, and every input but the
\* largest generated buffers with each choice of the pointers.
Calls ==
    {[in |-> in, c |-> AllSinks] : in \in Inputs(MaxAttrs)}
    \cup {[in |-> in, c |-> c] : in \in Inputs(MaxAttrs - 1), c \in Sinks}

Init ==
    \E call \in Calls :
        /\ actions = call.in.actions
        /\ packet = call.in.packet
        /\ flow = flow_extract(call.in.packet)
        /\ dp = call.c.dp
        /\ key = call.c.key
        /\ output = call.c.output
        /\ userspace = call.c.userspace
        /\ caller = [packet |-> call.in.packet, flow |-> flow_extract(call.in.packet)]
        /\ stack = <<Frame("execute_actions", call.in.actions, 1, <<>>)>>
        /\ status = "running"
        /\ calls = <<>>
        /\ draws = <<>>
        /\ tid = 1
        /\ other = [status |-> "none"]
        /\ rng = <<>>

Next ==
    \/ ExecOutput
    \/ ExecOutputAssert
    \/ ExecUserspace
    \/ ExecUserspaceAssert
    \/ ExecPushVlan
    \/ ExecPopVlan
    \/ ExecPushMpls
    \/ ExecPopMpls
    \/ ExecSet
    \/ ExecSetNotReached
    \/ ExecSample
    \/ ExecNotReached
    \/ ExecNoCase
    \/ Return
    \/ SampleProbability
    \/ SampleActions
    \/ SampleNotReached
    \/ SampleCall

Spec == Init /\ [][Next]_vars

(***************************************************************************)
(* Two threads, each in a call of execute_actions() with a packet and a    *)
(* key of its own.  The functions keep all they use in their arguments and *)
(* automatic variables, so a thread's step reads and writes the state of   *)
(* its own call only; random_uint32() is the one thing the calls share.    *)
(* One thread runs at a time, and the scheduler may switch to the other    *)
(* between any two steps.                                                  *)
(***************************************************************************)
\* The state of the call of the running thread.
Running ==
    [actions |-> actions, packet |-> packet, flow |-> flow, dp |-> dp, key |-> key,
     output |-> output, userspace |-> userspace, caller |-> caller,
     stack |-> stack, status |-> status, calls |-> calls, draws |-> draws]

\* The scheduler takes the running thread off and puts the other one on.
\* abort() ends the process, and with it every thread.
ContextSwitch ==
    /\ status # "aborted"
    /\ other.status = "running"
    /\ actions' = other.actions
    /\ packet' = other.packet
    /\ flow' = other.flow
    /\ dp' = other.dp
    /\ key' = other.key
    /\ output' = other.output
    /\ userspace' = other.userspace
    /\ caller' = other.caller
    /\ stack' = other.stack
    /\ status' = other.status
    /\ calls' = other.calls
    /\ draws' = other.draws
    /\ other' = Running
    /\ tid' = 3 - tid
    /\ UNCHANGED rng

\* The calls the two threads make: between them, every case of the three
\* switches, every threshold and both assertions.
ConcCalls ==
    {[in |-> [packet |-> TcpPacket, actions |-> l], c |-> AllSinks] : l \in
        {<<Output(U32(0, 1)),
           Sample(<<Probability(U32(65535, 65534)), Actions(<<Set(KeyEthernet), Userspace(7)>>)>>),
           Output(U32(0, 3))>>,
         <<Sample(<<Probability(UINT32_MAX), Actions(<<Set(KeyIpv4), Output(U32(0, 1))>>)>>),
           Sample(<<Probability(U32(0, 0)), Actions(<<Output(U32(0, 3))>>)>>)>>,
         <<PushVlan(4106), PopVlan, PushMpls(ETH_TYPE_MPLS, <<0, 1, 1, 63>>),
           PopMpls(ETH_TYPE_IP), Output(U32(0, 3))>>,
         <<Output(U32(0, 1)), Attr(OVS_ACTION_ATTR_MAX + 1, [len |-> 0]),
           Set(KeyOpaque(OVS_KEY_ATTR_VLAN))>>,
         <<Userspace(7), Attr(OVS_ACTION_ATTR_UNSPEC, [len |-> 0])>>,
         <<Sample(<<Actions(<<Output(U32(0, 1))>>), Attr(OVS_SAMPLE_ATTR_MAX, [len |-> 0])>>)>>}}
    \cup {[in |-> [packet |-> Udp6Packet, actions |-> <<Set(KeyUdp), Userspace(7), Output(U32(0, 3))>>],
           c |-> c] : c \in Sinks}

TwoCallsInit ==
    \E c1 \in ConcCalls, c2 \in ConcCalls :
        /\ actions = c1.in.actions
        /\ packet = c1.in.packet
        /\ flow = flow_extract(c1.in.packet)
        /\ dp = c1.c.dp
        /\ key = c1.c.key
        /\ output = c1.c.output
        /\ userspace = c1.c.userspace
        /\ caller = [packet |-> c1.in.packet, flow |-> flow_extract(c1.in.packet)]
        /\ stack = <<Frame("execute_actions", c1.in.actions, 1, <<>>)>>
        /\ status = "running"
        /\ calls = <<>>
        /\ draws = <<>>
        /\ tid = 1
        /\ other = [actions |-> c2.in.actions, packet |-> c2.in.packet,
                    flow |-> flow_extract(c2.in.packet), dp |-> c2.c.dp, key |-> c2.c.key,
                    output |-> c2.c.output, userspace |-> c2.c.userspace,
                    caller |-> [packet |-> c2.in.packet, flow |-> flow_extract(c2.in.packet)],
                    stack |-> <<Frame("execute_actions", c2.in.actions, 1, <<>>)>>,
                    status |-> "running", calls |-> <<>>, draws |-> <<>>]
        /\ rng = <<>>

TwoCallsNext ==
    \/ ExecOutput
    \/ ExecOutputAssert
    \/ ExecUserspace
    \/ ExecUserspaceAssert
    \/ ExecPushVlan
    \/ ExecPopVlan
    \/ ExecPushMpls
    \/ ExecPopMpls
    \/ ExecSet
    \/ ExecSetNotReached
    \/ ExecSample
    \/ ExecNotReached
    \/ ExecNoCase
    \/ Return
    \/ SampleProbability
    \/ SampleActions
    \/ SampleNotReached
    \/ SampleCall
    \/ ContextSwitch

TwoCalls == TwoCallsInit /\ [][TwoCallsNext]_vars

(***************************************************************************)
(* What the claims are stated with.                                        *)
(***************************************************************************)
\* a < b of two uint32_t.
u32_lt(a, b) == a.hi < b.hi \/ (a.hi = b.hi /\ a.lo < b.lo)

IsOutput(a) == a.nla_type = OVS_ACTION_ATTR_OUTPUT

IsUserspace(a) == a.nla_type = OVS_ACTION_ATTR_USERSPACE

IsSample(a) == a.nla_type = OVS_ACTION_ATTR_SAMPLE

IsProbability(a) == a.nla_type = OVS_SAMPLE_ATTR_PROBABILITY

\* The sample action a carries a probability.
HasProbability(a) == \E j \in 1..Len(a.payload.nested) : IsProbability(a.payload.nested[j])

\* The threshold of the sample action a.
ThresholdOf(a) ==
    LET j == CHOOSE j \in 1..Len(a.payload.nested) : IsProbability(a.payload.nested[j])
    IN  a.payload.nested[j].payload

\* The action list nested in the sample action a.
NestedOf(a) ==
    LET j == CHOOSE j \in 1..Len(a.payload.nested) :
                a.payload.nested[j].nla_type = OVS_SAMPLE_ATTR_ACTIONS
    IN  a.payload.nested[j].payload.nested

\* The innermost loop is at a probability attribute.
AtProbability == AtSampleAttr /\ IsProbability(cur)

\* The value random_uint32() returned last.
LastDraw == draws[Len(draws)]

\* The eight discriminants of an action.
KnownActions ==
    {OVS_ACTION_ATTR_OUTPUT, OVS_ACTION_ATTR_USERSPACE, OVS_ACTION_ATTR_PUSH_VLAN,
     OVS_ACTION_ATTR_POP_VLAN, OVS_ACTION_ATTR_PUSH_MPLS, OVS_ACTION_ATTR_POP_MPLS,
     OVS_ACTION_ATTR_SET, OVS_ACTION_ATTR_SAMPLE}

(***************************************************************************)
(* C1.  An action whose discriminant is none of Output, Exception-delivery, *)
(* Push-VLAN, Pop-VLAN, Push-MPLS, Pop-MPLS, Set and Sample, a value above *)
(* the sentinel included, ends the execution in the fatal state at that    *)
(* action; execution never goes on to the next action.                     *)
(***************************************************************************)
C1_UnknownActionIsFatal ==
    [][(AtAction /\ nl_attr_type(cur) \notin KnownActions) => status' = "aborted"]_vars

(***************************************************************************)
(* C2.  For a list of n Output actions, with the context and the output    *)
(* sink present, the output sink is invoked exactly n times, the i-th time *)
(* with the port of the i-th action, and the exception sink never: while   *)
(* the loop is at the action after the k-th, the invocations are the first *)
(* k, and when the call has returned they are all n.                       *)
(***************************************************************************)
OnlyOutputs(l) == \A i \in 1..Len(l) : IsOutput(l[i])

C2_OutputsOnceEachInOrder ==
    (OnlyOutputs(actions) /\ dp # 0 /\ output # 0) =>
        LET n == IF status = "returned" THEN Len(actions) ELSE stack[1].i - 1
        IN  /\ status # "aborted"
            /\ Len(calls) = n
            /\ \A k \in 1..n :
                /\ calls[k].sink = "output"
                /\ calls[k].out_port = actions[k].payload

C2_Witness ==
    /\ status = "returned"
    /\ OnlyOutputs(actions)
    /\ Len(actions) >= 2
    /\ actions[1].payload # actions[2].payload
    /\ Len(calls) = Len(actions)

(***************************************************************************)
(* C3.  A sample action with threshold T executes its nested list if and   *)
(* only if the draw d is below T: at the probability attribute one value   *)
(* is drawn; when d < T execute_sample goes on (and, its attributes done,  *)
(* calls execute_actions on the nested list), and otherwise it returns at  *)
(* once, the nested list not executed.  With T = 0 it returns for every d. *)
(***************************************************************************)
C3_SampleRunsIffDrawBelowThreshold ==
    /\ [][AtProbability =>
            /\ Len(draws') = Len(draws) + 1
            /\ IF u32_lt(LastDraw', nl_attr_get_u32(cur))
               THEN /\ Len(stack') = Len(stack)
                    /\ stack'[Len(stack)].fn = "execute_sample"
                    /\ stack'[Len(stack)].i = top.i + 1
               ELSE stack' = SubSeq(stack, 1, Len(stack) - 1)]_vars
    /\ [][(status = "running" /\ top.fn = "execute_sample" /\ top.i > Len(top.attrs)) =>
            /\ Len(stack') = Len(stack)
            /\ stack'[Len(stack)].fn = "execute_actions"
            /\ stack'[Len(stack)].attrs = nl_attr_nested(Head(top.subactions))
            /\ stack'[Len(stack)].i = 1]_vars

\* The nested Output of a sample action has run after a draw below the
\* threshold UINT32_MAX - 1.
C3_Witness ==
    /\ status = "returned"
    /\ Len(actions) >= 1
    /\ IsSample(actions[1])
    /\ HasProbability(actions[1])
    /\ ThresholdOf(actions[1]) = U32(65535, 65534)
    /\ draws = <<U32(0, 0)>>
    /\ Len(calls) >= 2

(***************************************************************************)
(* C4.  A sample action with threshold 0xFFFFFFFF executes its nested list *)
(* for every value of the draw, 0 through 0xFFFFFFFF: at its probability   *)
(* attribute execute_sample never returns.                                 *)
(***************************************************************************)
C4_MaxThresholdRunsOnEveryDraw ==
    [][(AtProbability /\ nl_attr_get_u32(cur) = UINT32_MAX) =>
            /\ Len(stack') = Len(stack)
            /\ stack'[Len(stack)].fn = "execute_sample"]_vars

(***************************************************************************)
(* C5.  When the test of an outer sample action fails, execute_sample      *)
(* returns with no effect: for a buffer whose first action is a sample     *)
(* action with a threshold that the first draw is not below, once the      *)
(* draw is made the outermost call is past the sample action, and while it *)
(* is at the action right after it no other call is in progress, the       *)
(* packet is the caller's, no sink has been invoked and the draw is the    *)
(* only one.                                                               *)
(***************************************************************************)
C5_FailedSampleHasNoEffect ==
    (/\ Len(actions) >= 1
     /\ IsSample(actions[1])
     /\ HasProbability(actions[1])
     /\ draws # <<>>
     /\ ~u32_lt(draws[1], ThresholdOf(actions[1]))) =>
        /\ status # "returned" =>
            /\ stack[1].i >= 2
            /\ stack[1].i = 2 =>
                (Len(stack) = 1 /\ packet = caller.packet /\ calls = <<>> /\ Len(draws) = 1)
        /\ (status = "returned" /\ Len(actions) = 1) =>
            (packet = caller.packet /\ calls = <<>> /\ Len(draws) = 1)

\* The outer sample action of two failed its test: the inner one, with the
\* threshold that no draw but UINT32_MAX fails, drew nothing.
C5_Witness ==
    /\ status = "returned"
    /\ actions = <<Sample(<<Probability(U32(0, 0)),
                           Actions(<<Sample(<<Probability(UINT32_MAX),
                                              Actions(<<Output(U32(0, 1))>>)>>)>>)>>)>>
    /\ Len(draws) = 1
    /\ calls = <<>>

(***************************************************************************)
(* C6.  A sample action with a nested list and no probability always       *)
(* executes the nested list, and draws nothing: while execute_sample       *)
(* handles such an action no value is drawn and it does not return, and    *)
(* its attributes done, it calls execute_actions on the nested list.       *)
(***************************************************************************)
\* The innermost call is execute_sample for <<Actions(l)>>.
InPlainSample ==
    /\ status = "running"
    /\ top.fn = "execute_sample"
    /\ Len(top.attrs) = 1
    /\ top.attrs[1].nla_type = OVS_SAMPLE_ATTR_ACTIONS

C6_NoProbabilityAlwaysRuns ==
    [][InPlainSample =>
            /\ draws' = draws
            /\ status' = "running"
            /\ Len(stack') = Len(stack)
            /\ top.i > 1 => stack'[Len(stack)] =
                    Frame("execute_actions", top.attrs[1].payload.nested, 1, <<>>)]_vars

\* The Output nested in a sample action without probability has run, and
\* nothing was drawn.
C6_Witness ==
    /\ status = "returned"
    /\ Len(actions) = 1
    /\ IsSample(actions[1])
    /\ ~HasProbability(actions[1])
    /\ NestedOf(actions[1]) = <<Output(U32(0, 3))>>
    /\ Len(calls) = 1
    /\ calls[1].sink = "output"
    /\ draws = <<>>

(***************************************************************************)
(* The effect of an action list, told action by action: which actions a    *)
(* run with given draws executes, what they make of a packet, and which    *)
(* sink invocations they make.                                             *)
(***************************************************************************)
IsSinkAction(a) == IsOutput(a) \/ IsUserspace(a)

RECURSIVE Executed(_, _)
\* The actions other than sample actions that a run of the list l executes,
\* in order, when random_uint32() returns the values ds, and the number of
\* the values it draws: a sample action contributes those of its nested
\* list when it has no probability or the draw is below its threshold.
Executed(l, ds) ==
    IF l = <<>> THEN [acts |-> <<>>, used |-> 0]
    ELSE LET a == Head(l)
             inner ==
                IF ~IsSample(a) THEN [acts |-> <<a>>, used |-> 0]
                ELSE IF ~HasProbability(a) THEN Executed(NestedOf(a), ds)
                ELSE IF u32_lt(ds[1], ThresholdOf(a))
                     THEN LET r == Executed(NestedOf(a), Tail(ds))
                          IN  [acts |-> r.acts, used |-> r.used + 1]
                     ELSE [acts |-> <<>>, used |-> 1]
             rest == Executed(Tail(l), SubSeq(ds, inner.used + 1, Len(ds)))
         IN  [acts |-> inner.acts \o rest.acts, used |-> inner.used + rest.used]

\* The packet p after the action a, which is no sample action.
Mutated(p, a) ==
    CASE a.nla_type = OVS_ACTION_ATTR_SET -> execute_set_action(p, a.payload.nested[1])
      [] a.nla_type = OVS_ACTION_ATTR_PUSH_VLAN -> eth_push_vlan(p, a.payload.vlan_tci)
      [] a.nla_type = OVS_ACTION_ATTR_POP_VLAN -> eth_pop_vlan(p)
      [] a.nla_type = OVS_ACTION_ATTR_PUSH_MPLS ->
            push_mpls(p, a.payload.mpls_ethertype, a.payload.mpls_lse)
      [] a.nla_type = OVS_ACTION_ATTR_POP_MPLS -> pop_mpls(p, a.payload.be16)
      [] OTHER -> p

RECURSIVE PacketAfter(_, _)
\* The packet p after the actions acts, first to last.
PacketAfter(acts, p) ==
    IF acts = <<>> THEN p ELSE PacketAfter(Tail(acts), Mutated(p, Head(acts)))

RECURSIVE CallsOf(_, _)
\* The sink invocations of the actions acts on the packet p: each sees the
\* packet as the actions before it leave it.
CallsOf(acts, p) ==
    IF acts = <<>> THEN <<>>
    ELSE LET a == Head(acts)
         IN  IF IsOutput(a)
             THEN <<[sink |-> "output", dp |-> dp, packet |-> p, out_port |-> a.payload]>>
                  \o CallsOf(Tail(acts), p)
             ELSE IF IsUserspace(a)
             THEN <<[sink |-> "userspace", dp |-> dp, packet |-> p, key |-> key,
                     flow |-> caller.flow, a |-> a]>>
                  \o CallsOf(Tail(acts), p)
             ELSE CallsOf(Tail(acts), Mutated(p, a))

(***************************************************************************)
(* C7.  Output does not stop the sequence: when the call for a list        *)
(* without sample actions has returned, the sinks have been invoked once   *)
(* for each Output and each Exception-delivery action of the list, in list *)
(* order, each Output with its port, and the packet has the changes of all *)
(* the other actions.                                                      *)
(***************************************************************************)
NoSamples(l) == \A i \in 1..Len(l) : ~IsSample(l[i])

C7_OutputDoesNotStop ==
    (status = "returned" /\ NoSamples(actions)) =>
        LET sinks == SelectSeq(actions, IsSinkAction)
        IN  /\ Len(calls) = Len(sinks)
            /\ \A k \in 1..Len(sinks) :
                IF IsOutput(sinks[k])
                THEN calls[k].sink = "output" /\ calls[k].out_port = sinks[k].payload
                ELSE calls[k].sink = "userspace" /\ calls[k].a = sinks[k]
            /\ packet = PacketAfter(actions, caller.packet)

\* An Output, then a Set and another Output, all three done.
C7_Witness ==
    /\ status = "returned"
    /\ actions = <<Output(U32(0, 1)), Set(KeyIpv4), Output(U32(0, 3))>>
    /\ Len(calls) = 2
    /\ packet # caller.packet

(***************************************************************************)
(* C8.  An Output action reached while the context or the output sink is   *)
(* absent, and an Exception-delivery action reached while the context, the *)
(* exception sink or the flow key is absent, ends the execution in the     *)
(* fatal state, and no sink is invoked for it.                             *)
(***************************************************************************)
C8_MissingSinkIsFatal ==
    [][(\/ AtAction /\ IsOutput(cur) /\ (dp = 0 \/ output = 0)
        \/ AtAction /\ IsUserspace(cur) /\ (dp = 0 \/ userspace = 0 \/ key = 0)) =>
            (status' = "aborted" /\ calls' = calls)]_vars

\* An Exception-delivery action was reached without a flow key, after an
\* Output action that was carried out.
C8_Witness ==
    /\ status = "aborted"
    /\ key = 0
    /\ IsUserspace(cur)
    /\ Len(calls) = 1
    /\ calls[1].sink = "output"

(***************************************************************************)
(* C9.  An action list is interpreted left to right: when the call has     *)
(* returned, the sink invocations are those of the executed actions (those *)
(* of executed nested lists included) in list order, each with the packet  *)
(* as changed by the actions before it and none after it.  For             *)
(* [Set(IPv4{src=10.0.0.1, dst=10.0.0.2, ttl=64}), Output(port=3)] the     *)
(* output sink is invoked once, with port 3 and the rewritten packet, whose *)
(* IPv4 and TCP checksums are those of the new header.                     *)
(***************************************************************************)
\* The IPv4 header and the TCP header of p carry the right checksums.
ChecksumsValid(p) ==
    /\ fold16(sum16(p.data, p.l3, IP_HEADER_LEN \div 2)) = 65535
    /\ fold16(sum16(p.data, p.l3 + 12, 4) + IPPROTO_TCP + (Len(p.data) - p.l4)
              + sum16(p.data, p.l4, (Len(p.data) - p.l4) \div 2)) = 65535

C9_LeftToRight ==
    /\ status = "returned" =>
        LET run == Executed(actions, draws)
        IN  /\ run.used = Len(draws)
            /\ calls = CallsOf(run.acts, caller.packet)
            /\ packet = PacketAfter(run.acts, caller.packet)
    /\ (status = "returned" /\ actions = <<Set(KeyIpv4), Output(U32(0, 3))>>) =>
        /\ Len(calls) = 1
        /\ calls[1].sink = "output"
        /\ calls[1].out_port = U32(0, 3)
        /\ calls[1].packet = packet
        /\ SubSeq(packet.data, packet.l3 + 13, packet.l3 + 20) = <<10, 0, 0, 1, 10, 0, 0, 2>>
        /\ packet.data[packet.l3 + 9] = 64
        /\ SubSeq(caller.packet.data, caller.packet.l3 + 13, caller.packet.l3 + 20)
                = <<192, 168, 0, 1, 192, 168, 0, 2>>
        /\ ChecksumsValid(caller.packet)
        /\ ChecksumsValid(packet)

\* The exception sink has seen the packet as it was, the output sink after
\* it the packet that a Set nested in a sample action rewrote, and neither
\* what the Set after them made of it.
C9_Witness ==
    /\ status = "returned"
    /\ Len(actions) = 4
    /\ IsSample(actions[2])
    /\ Len(calls) = 2
    /\ calls[1].sink = "userspace"
    /\ calls[1].packet = caller.packet
    /\ calls[2].sink = "output"
    /\ calls[2].packet # caller.packet
    /\ calls[2].packet # packet

(***************************************************************************)
(* C10.  The flow key is never modified or derived anew: the flow key is   *)
(* at every moment the one the caller supplied, and every invocation of    *)
(* the exception sink, nested in a sample action or not, gets the caller's *)
(* key pointer and finds the caller's flow key behind it, whatever the     *)
(* actions before it made of the packet.                                   *)
(***************************************************************************)
C10_FlowKeyUntouched ==
    /\ flow = caller.flow
    /\ \A k \in 1..Len(calls) :
        calls[k].sink = "userspace" =>
            (calls[k].key = key /\ calls[k].key # 0 /\ calls[k].flow = caller.flow)

\* The exception sink was invoked from a nested list after a Set, with the
\* key of the packet as it was before.
C10_Witness ==
    /\ Len(stack) = 2
    /\ IsSample(actions[1])
    /\ NestedOf(actions[1]) = <<Set(KeyEthernet), Userspace(7)>>
    /\ top.i = 3
    /\ \E k \in 1..Len(calls) :
        /\ calls[k].sink = "userspace"
        /\ calls[k].packet # caller.packet
        /\ calls[k].flow = flow_extract(caller.packet)
        /\ calls[k].flow # flow_extract(calls[k].packet)

(***************************************************************************)
(* C11.  Each Exception-delivery action that is reached with the context,  *)
(* the exception sink and the flow key present invokes the exception sink  *)
(* exactly once, with the context, the packet as it is then, the flow key  *)
(* and the attribute itself (type and payload, not the payload alone), and *)
(* leaves the packet as it was; the invocations before it stay.            *)
(***************************************************************************)
C11_UserspaceGetsRawAttribute ==
    [][(AtAction /\ IsUserspace(cur) /\ dp # 0 /\ userspace # 0 /\ key # 0) =>
            /\ Len(calls') = Len(calls) + 1
            /\ SubSeq(calls', 1, Len(calls)) = calls
            /\ LET c == calls'[Len(calls')]
               IN  /\ c.sink = "userspace"
                   /\ c.dp = dp
                   /\ c.packet = packet
                   /\ c.key = key
                   /\ c.flow = flow
                   /\ DOMAIN c.a = {"nla_type", "payload"}
                   /\ c.a = cur
            /\ packet' = packet
            /\ status' = "running"]_vars

\* The one Exception-delivery action of a list was carried out.
C11_Witness ==
    /\ status = "returned"
    /\ actions = <<Userspace(7)>>
    /\ Len(calls) = 1
    /\ calls[1].sink = "userspace"
    /\ calls[1].a.nla_type = OVS_ACTION_ATTR_USERSPACE

IsSet(a) == a.nla_type = OVS_ACTION_ATTR_SET

\* The discriminant of the key a Set action carries.
SetKeyType(a) == a.payload.nested[1].nla_type

\* The keys that are match-only.
MatchOnlyKeys ==
    {OVS_KEY_ATTR_UNSPEC, OVS_KEY_ATTR_ENCAP, OVS_KEY_ATTR_ETHERTYPE,
     OVS_KEY_ATTR_IN_PORT, OVS_KEY_ATTR_VLAN, OVS_KEY_ATTR_ICMP,
     OVS_KEY_ATTR_ICMPV6, OVS_KEY_ATTR_ARP, OVS_KEY_ATTR_ND}

\* The keys whose set is accepted and does nothing.
UnimplementedKeys ==
    {OVS_KEY_ATTR_PRIORITY, OVS_KEY_ATTR_TUNNEL, OVS_KEY_ATTR_SKB_MARK}

\* The keys that are set.
SettableKeys ==
    {OVS_KEY_ATTR_ETHERNET, OVS_KEY_ATTR_IPV4, OVS_KEY_ATTR_IPV6,
     OVS_KEY_ATTR_TCP, OVS_KEY_ATTR_UDP, OVS_KEY_ATTR_MPLS}

\* A value that is no key discriminant at all.
UnrecognizedKey(t) ==
    t \notin MatchOnlyKeys \cup UnimplementedKeys \cup SettableKeys \cup {OVS_KEY_ATTR_MAX}

(***************************************************************************)
(* C12.  A Set action whose key is match-only (Unspecified, Encapsulation, *)
(* Ethertype, InPort, VLAN, ICMP, ICMPv6, ARP, ND), the sentinel, or a     *)
(* value that is no key discriminant ends the execution in the fatal state *)
(* at that action: it is never skipped, and it changes neither the packet  *)
(* nor the sink invocations.                                               *)
(***************************************************************************)
C12_UnsettableKeyIsFatal ==
    [][(/\ AtAction
        /\ IsSet(cur)
        /\ \/ SetKeyType(cur) \in MatchOnlyKeys
           \/ SetKeyType(cur) = OVS_KEY_ATTR_MAX
           \/ UnrecognizedKey(SetKeyType(cur))) =>
            /\ status' = "aborted"
            /\ stack' = stack
            /\ packet' = packet
            /\ calls' = calls]_vars

\* The set of a value above the sentinel ended the execution, the Output
\* after it not carried out.
C12_Witness ==
    /\ status = "aborted"
    /\ actions = <<Set(KeyOpaque(OVS_KEY_ATTR_MAX + 1)), Output(U32(0, 3))>>
    /\ stack[1].i = 1
    /\ calls = <<>>

(***************************************************************************)
(* C13.  A Set action of Priority, Tunnel or Mark is accepted and does     *)
(* nothing: the bytes and the layer offsets of the packet are unchanged,   *)
(* no sink is invoked, the execution is not fatal and goes on with the     *)
(* next action.                                                            *)
(***************************************************************************)
C13_UnimplementedKeyIsNoOp ==
    [][(AtAction /\ IsSet(cur) /\ SetKeyType(cur) \in UnimplementedKeys) =>
            /\ packet' = packet
            /\ flow' = flow
            /\ calls' = calls
            /\ status' = "running"
            /\ stack' = Advance]_vars

\* After the set of Mark the Output was carried out on the caller's packet.
C13_Witness ==
    /\ status = "returned"
    /\ actions = <<Set(KeyOpaque(OVS_KEY_ATTR_SKB_MARK)), Output(U32(0, 3))>>
    /\ Len(calls) = 1
    /\ calls[1].packet = caller.packet
    /\ packet = caller.packet

(***************************************************************************)
(* C14.  A Set action of Ethernet overwrites exactly the link-layer source *)
(* and destination addresses with those of the key: the six bytes at the   *)
(* link-layer offset are the destination of the key, the six after them    *)
(* its source, and every other byte (the ethertype included), the length   *)
(* and the three layer offsets are as before.                              *)
(***************************************************************************)
C14_SetEthernetWritesAddressesOnly ==
    [][(AtAction /\ IsSet(cur) /\ SetKeyType(cur) = OVS_KEY_ATTR_ETHERNET) =>
            LET k == cur.payload.nested[1].payload
                o == packet.l2
            IN  /\ Len(packet'.data) = Len(packet.data)
                /\ packet'.l2 = packet.l2
                /\ packet'.l3 = packet.l3
                /\ packet'.l4 = packet.l4
                /\ \A j \in 1..Len(packet.data) :
                    packet'.data[j] =
                        IF j >= o + 1 /\ j <= o + 6 THEN k.eth_dst[j - o]
                        ELSE IF j >= o + 7 /\ j <= o + 12 THEN k.eth_src[j - o - 6]
                        ELSE packet.data[j]
                /\ calls' = calls
                /\ status' = "running"]_vars

\* The Output after a set of Ethernet saw the new addresses in front of the
\* ethertype of the caller's packet.
C14_Witness ==
    /\ status = "returned"
    /\ actions = <<Set(KeyEthernet), Output(U32(0, 3))>>
    /\ Len(calls) = 1
    /\ SubSeq(calls[1].packet.data, 1, 6) = KeyEthernet.payload.eth_dst
    /\ SubSeq(calls[1].packet.data, 7, 12) = KeyEthernet.payload.eth_src
    /\ SubSeq(calls[1].packet.data, 1, 12) # SubSeq(caller.packet.data, 1, 12)
    /\ SubSeq(calls[1].packet.data, 13, 14) = SubSeq(caller.packet.data, 13, 14)

\* The packet before the k-th action of a list without sample actions.
PacketBefore(k) == PacketAfter(SubSeq(actions, 1, k - 1), caller.packet)

\* The frame p has no 802.1Q tag.
Untagged(p) == get16(p.data, p.l2 + 12) # 33024

(***************************************************************************)
(* C15.  For a frame without an 802.1Q tag and any TCI, Push-VLAN(tci)     *)
(* followed at once by Pop-VLAN leaves the packet as it was before the     *)
(* two: the same bytes, length and layer offsets.  Between the two the     *)
(* packet is four bytes longer and has the tag, TPID 0x8100 and the TCI,   *)
(* in front of its ethertype.                                              *)
(***************************************************************************)
C15_PushPopVlanRoundTrip ==
    NoSamples(actions) =>
        \A k \in 1..(Len(actions) - 1) :
            (/\ actions[k].nla_type = OVS_ACTION_ATTR_PUSH_VLAN
             /\ actions[k + 1].nla_type = OVS_ACTION_ATTR_POP_VLAN
             /\ status = "running"
             /\ stack[1].i \in {k + 1, k + 2}
             /\ Untagged(PacketBefore(k))) =>
                LET before == PacketBefore(k)
                IN  IF stack[1].i = k + 1
                    THEN /\ Len(packet.data) = Len(before.data) + 4
                         /\ get16(packet.data, packet.l2 + 12) = 33024
                         /\ get16(packet.data, packet.l2 + 14) = actions[k].payload.vlan_tci
                         /\ packet.l3 = before.l3 + 4
                    ELSE packet = before

\* The tag with every bit of the TCI set was pushed and popped, and the
\* packet is the caller's again.
C15_Witness ==
    /\ status = "running"
    /\ actions = <<PushVlan(65535), PopVlan, Output(U32(0, 3))>>
    /\ stack[1].i = 3
    /\ packet = caller.packet

(***************************************************************************)
(* C16.  For a packet whose ethertype is O, Push-MPLS(E, lse) followed at  *)
(* once by Pop-MPLS(O) leaves the packet as it was before the two: the     *)
(* ethertype is O again and exactly the four bytes that were inserted are  *)
(* gone, so the bytes, the length and the layer offsets are the original   *)
(* ones.  Between the two the packet is four bytes longer, its ethertype   *)
(* is E and the label stack entry follows the link-layer header.           *)
(***************************************************************************)
C16_PushPopMplsRoundTrip ==
    NoSamples(actions) =>
        \A k \in 1..(Len(actions) - 1) :
            (/\ actions[k].nla_type = OVS_ACTION_ATTR_PUSH_MPLS
             /\ actions[k + 1].nla_type = OVS_ACTION_ATTR_POP_MPLS
             /\ status = "running"
             /\ stack[1].i \in {k + 1, k + 2}
             /\ actions[k + 1].payload.be16 =
                    get16(PacketBefore(k).data, eth_type_ofs(PacketBefore(k)))) =>
                LET before == PacketBefore(k)
                IN  IF stack[1].i = k + 1
                    THEN /\ Len(packet.data) = Len(before.data) + 4
                         /\ get16(packet.data, eth_type_ofs(before)) =
                                actions[k].payload.mpls_ethertype
                         /\ SubSeq(packet.data, eth_type_ofs(before) + 3,
                                   eth_type_ofs(before) + 6) = actions[k].payload.mpls_lse
                         /\ packet.l3 = before.l3 + 4
                    ELSE packet = before

\* A label stack entry was pushed on the IPv6 packet and popped with the
\* ethertype of IPv6, and the packet is the caller's again.
C16_Witness ==
    /\ status = "running"
    /\ actions = <<PushMpls(ETH_TYPE_MPLS, <<0, 1, 1, 63>>), PopMpls(34525), Userspace(7)>>
    /\ stack[1].i = 3
    /\ packet = caller.packet

\* The call of thread i.
Thread(i) == IF tid = i THEN Running ELSE other

\* The values random_uint32() returned to thread i, oldest first.
DrawsOf(i) ==
    LET Mine(e) == e.tid = i
        mine == SelectSeq(rng, Mine)
    IN  [k \in 1..Len(mine) |-> mine[k].value]

RECURSIVE AloneCalls(_, _, _)
\* The sink invocations of the actions acts on the packet p in the call t,
\* when no other call is in progress.
AloneCalls(acts, p, t) ==
    IF acts = <<>> THEN <<>>
    ELSE LET a == Head(acts)
         IN  IF IsOutput(a)
             THEN <<[sink |-> "output", dp |-> t.dp, packet |-> p, out_port |-> a.payload]>>
                  \o AloneCalls(Tail(acts), p, t)
             ELSE IF IsUserspace(a)
             THEN <<[sink |-> "userspace", dp |-> t.dp, packet |-> p, key |-> t.key,
                     flow |-> t.caller.flow, a |-> a]>>
                  \o AloneCalls(Tail(acts), p, t)
             ELSE AloneCalls(Tail(acts), Mutated(p, a), t)

(***************************************************************************)
(* C17.  Two calls of execute_actions(), each with a packet and a key of   *)
(* its own, do not disturb each other however their steps interleave:      *)
(* when a call has returned, its packet and its sink invocations are those *)
(* of the same call made alone with the values it drew, and its key is     *)
(* untouched; every value random_uint32() returned went to one call only,  *)
(* and a call drew the values returned to it, in their order, and no       *)
(* others.                                                                 *)
(***************************************************************************)
C17_ConcurrentCallsAreIndependent ==
    /\ Len(rng) = Len(Thread(1).draws) + Len(Thread(2).draws)
    /\ \A i \in {1, 2} :
        LET t == Thread(i)
        IN  /\ t.draws = DrawsOf(i)
            /\ t.status = "returned" =>
                LET r == Executed(t.actions, t.draws)
                IN  /\ r.used = Len(t.draws)
                    /\ t.packet = PacketAfter(r.acts, t.caller.packet)
                    /\ t.calls = AloneCalls(r.acts, t.caller.packet, t)
                    /\ t.flow = t.caller.flow

\* Both calls returned after each ran a nested list, thread 2 having drawn
\* between two draws of thread 1.
C17_Witness ==
    /\ Thread(1).status = "returned"
    /\ Thread(2).status = "returned"
    /\ Len(rng) = 3
    /\ rng[1].tid = 1
    /\ rng[2].tid = 2
    /\ rng[3].tid = 1
    /\ Len(Thread(1).calls) = 1
    /\ Len(Thread(2).calls) = 3
    /\ Thread(1).packet # Thread(2).packet

RECURSIVE Nesting(_)
\* The depth to which sample actions are nested in the list l.
Nesting(l) ==
    IF l = <<>> THEN 0
    ELSE LET here == IF IsSample(Head(l)) THEN 1 + Nesting(NestedOf(Head(l))) ELSE 0
             rest == Nesting(Tail(l))
         IN  IF here > rest THEN here ELSE rest

\* The calls of execute_actions() in progress below the outermost one.
Depth ==
    LET InActions(f) == f.fn = "execute_actions"
        n == Len(SelectSeq(stack, InActions))
    IN  IF n = 0 THEN 0 ELSE n - 1

RECURSIVE Reached(_, _)
\* The depth of the calls of execute_actions() that a run of the list l
\* makes when random_uint32() returns the values ds, and the number of the
\* values it draws.
Reached(l, ds) ==
    IF l = <<>> THEN [depth |-> 0, used |-> 0]
    ELSE LET a == Head(l)
             inner ==
                IF ~IsSample(a) THEN [depth |-> 0, used |-> 0]
                ELSE IF ~HasProbability(a)
                     THEN LET r == Reached(NestedOf(a), ds)
                          IN  [depth |-> 1 + r.depth, used |-> r.used]
                ELSE IF u32_lt(ds[1], ThresholdOf(a))
                     THEN LET r == Reached(NestedOf(a), Tail(ds))
                          IN  [depth |-> 1 + r.depth, used |-> r.used + 1]
                     ELSE [depth |-> 0, used |-> 1]
             rest == Reached(Tail(l), SubSeq(ds, inner.used + 1, Len(ds)))
         IN  [depth |-> IF inner.depth > rest.depth THEN inner.depth ELSE rest.depth,
              used |-> inner.used + rest.used]

RECURSIVE Weight(_)
\* What is left to do for the attributes l: three for each attribute, those
\* nested in it included.
Weight(l) ==
    IF l = <<>> THEN 0
    ELSE 3 + (IF "nested" \in DOMAIN Head(l).payload THEN Weight(Head(l).payload.nested) ELSE 0)
           + Weight(Tail(l))

\* What is left to do in the call f: to return, the attributes from the
\* cursor on, and the call on the list found.
FrameWeight(f) ==
    1 + Weight(SubSeq(f.attrs, f.i, Len(f.attrs)))
      + (IF f.subactions = <<>> THEN 0 ELSE 1 + Weight(Head(f.subactions).payload.nested))

RECURSIVE StackWeight(_)
StackWeight(s) == IF s = <<>> THEN 0 ELSE FrameWeight(Head(s)) + StackWeight(Tail(s))

\* What is left to do in all: a natural number, 0 when nothing is running.
Measure == IF status = "running" THEN StackWeight(stack) ELSE 0

\* A step of the running call is possible: one of the steps that leave the
\* packet alone is enabled, or the loop is at an action that changes the
\* packet.
StepPossible ==
    \/ ENABLED (\/ ExecOutput \/ ExecOutputAssert \/ ExecUserspace \/ ExecUserspaceAssert
                \/ ExecSetNotReached \/ ExecSample \/ ExecNotReached \/ ExecNoCase
                \/ Return \/ SampleProbability \/ SampleActions \/ SampleNotReached
                \/ SampleCall)
    \/ /\ AtAction
       /\ nl_attr_type(cur) \in {OVS_ACTION_ATTR_PUSH_VLAN, OVS_ACTION_ATTR_POP_VLAN,
                                  OVS_ACTION_ATTR_PUSH_MPLS, OVS_ACTION_ATTR_POP_MPLS}
    \/ /\ AtAction
       /\ IsSet(cur)
       /\ ~SetNotReached(SetKeyType(cur))

(***************************************************************************)
(* C18.  The execution of a finite well-formed buffer, with sinks that     *)
(* return, terminates, by returning or in the fatal state: while it runs a *)
(* step is always possible, and every step makes what is left to do, a     *)
(* natural number, smaller.  A call is entered only at a sample action:    *)
(* execute_sample() from execute_actions(), and execute_actions() from     *)
(* execute_sample().  The depth of the calls of execute_actions() is never *)
(* above the depth to which sample actions are nested in the buffer, and   *)
(* it reaches that depth in every run that returns and in which the tests  *)
(* of the sample actions on a deepest path pass.                           *)
(***************************************************************************)
C18_TerminatesWithinNestingDepth ==
    /\ [](status = "running" => StepPossible)
    /\ [][Measure' < Measure]_vars
    /\ [](Measure >= 0)
    /\ [][Len(stack') > Len(stack) =>
            /\ AtAction
            /\ IsSample(cur)
            /\ stack'[Len(stack')].fn = "execute_sample"]_vars
    /\ [][Depth' > Depth => (top.fn = "execute_sample" /\ Depth' = Depth + 1)]_vars
    /\ [](Depth <= Nesting(actions))
    /\ \/ <>(Depth = Nesting(actions))
       \/ [](status = "returned" => Reached(actions, draws).depth < Nesting(actions))

\* The innermost of two sample actions, one nested in the other, is
\* running its list: the depth is 2, the depth of the nesting.
C18_Witness ==
    /\ status = "running"
    /\ Nesting(actions) = 2
    /\ Depth = 2
    /\ Len(stack) = 3
    /\ Len(draws) = 2

\* The first action is a sample action whose nested list has no sample
\* action, and it has no test or its test passed.
FirstSamplePassed ==
    /\ Len(actions) >= 1
    /\ IsSample(actions[1])
    /\ NoSamples(NestedOf(actions[1]))
    /\ \/ ~HasProbability(actions[1])
       \/ draws # <<>> /\ u32_lt(draws[1], ThresholdOf(actions[1]))

(***************************************************************************)
(* C19.  A sample action whose test passes runs its nested list on the     *)
(* caller's own packet, with the same context, sinks and key: when         *)
(* execute_sample() has returned, the packet is the caller's packet after  *)
(* the actions of the nested list and the sinks were invoked as those      *)
(* actions say, with the context and key of the call; the action after the *)
(* sample action works on that packet, a sink invoked by it sees it, and   *)
(* what the nested list did is still there when the call returns.          *)
(***************************************************************************)
C19_NestedListRunsOnCallersPacket ==
    FirstSamplePassed =>
        LET nested == NestedOf(actions[1])
            after == PacketAfter(nested, caller.packet)
            n == Len(SelectSeq(nested, IsSinkAction))
        IN  /\ (status = "running" /\ Len(stack) = 1 /\ stack[1].i = 2) =>
                /\ packet = after
                /\ calls = CallsOf(nested, caller.packet)
            /\ (/\ Len(actions) >= 2
                /\ ~IsSample(actions[2])
                /\ status = "running"
                /\ Len(stack) = 1
                /\ stack[1].i = 3) =>
                /\ packet = Mutated(after, actions[2])
                /\ IsSinkAction(actions[2]) =>
                    /\ Len(calls) = n + 1
                    /\ calls[n + 1].packet = after
                    /\ calls[n + 1].dp = dp
            /\ (status = "returned" /\ Len(actions) = 1) => packet = after

\* The nested list set the Ethernet addresses and delivered the packet; the
\* Output after the sample action saw the addresses the nested list set.
C19_Witness ==
    /\ status = "returned"
    /\ actions = <<Sample(<<Probability(U32(65535, 65534)),
                           Actions(<<Set(KeyEthernet), Userspace(7)>>)>>),
                   Output(U32(0, 3))>>
    /\ Len(calls) = 2
    /\ calls[2].sink = "output"
    /\ calls[2].packet = calls[1].packet
    /\ calls[2].packet # caller.packet
    /\ packet = calls[2].packet

(***************************************************************************)
(* C20.  A fatal violation is found when the offending action is reached,  *)
(* and nothing is rolled back: the step into the fatal state changes       *)
(* neither the packet nor the sink invocations made so far; when a list    *)
(* without sample actions is in the fatal state at its i-th action, the    *)
(* sink invocations and the packet are exactly those of the actions 1 to   *)
(* i-1, in order; and in the fatal state no step is possible, so no action *)
(* after the i-th has any effect.                                          *)
(***************************************************************************)
C20_FatalKeepsEarlierEffectsOnly ==
    /\ [][status' = "aborted" =>
            /\ status = "running"
            /\ packet' = packet
            /\ calls' = calls
            /\ flow' = flow
            /\ stack' = stack]_vars
    /\ []((status = "aborted" /\ NoSamples(actions)) =>
            LET i == stack[1].i
                done == SubSeq(actions, 1, i - 1)
            IN  /\ i <= Len(actions)
                /\ calls = CallsOf(done, caller.packet)
                /\ packet = PacketAfter(done, caller.packet))
    /\ [](status = "aborted" => ~StepPossible)

\* The third action, a set of ARP, was fatal: the set of Ethernet and the
\* Output before it stand, the Output after it was not carried out.
C20_Witness ==
    /\ status = "aborted"
    /\ actions = <<Set(KeyEthernet), Output(U32(0, 1)), Set(KeyOpaque(OVS_KEY_ATTR_ARP)),
                   Output(U32(0, 3))>>
    /\ stack[1].i = 3
    /\ Len(calls) = 1
    /\ calls[1].out_port = U32(0, 1)
    /\ packet = calls[1].packet
    /\ packet # caller.packet

=============================================================================
